---- MODULE Spec2Model ----
(***************************************************************************)
(* State-machine model of the storefront page (app/page.tsx): the cart     *)
(* kept in React state, its mirror in the localStorage slot 'ecom_cart_v1' *)
(* and the page lifecycle (mount, hydration re-render, teardown).          *)
(*                                                                         *)
(* A Product is represented by its id (the cart only ever compares         *)
(* product.id); a CartItem is [product |-> id, quantity |-> n].            *)
(* The text held by the storage slot is a sequence of JSON tokens, built   *)
(* by JSONstringify and read back by JSONparse.                            *)
(***************************************************************************)
EXTENDS Integers, Sequences, FiniteSets, TLC

VARIABLES
    phase,      \* "closed" | "hydrating" | "ready" | "crashed"
    cart,       \* React state `cart` of the rendered Page
    pending,    \* value queued by setCart(parsed) in the load effect
    storage,    \* content of the slot CART_STORAGE_KEY
    quota,      \* number of further setItem calls the browser will reject
    writeOk,    \* whether the latest setItem call of this page succeeded
    renderError,\* a render of the page threw (user-visible error screen)
    saved,      \* history: the cart the page last wrote successfully
    atStart,    \* history: `saved` as it was when the page was mounted
    lastOp,     \* history: the latest operation, its arguments, the cart before
    subtotal,   \* subtotal shown by CartDrawer at its latest render, in cents
    products,   \* React state `products` (the catalog)
    loading,    \* React state `loading`
    error,      \* React state `error` ("null" or the message)
    mounted,    \* the flag `mounted` of the fetch effect
    fetchPc,    \* "idle" | "pending" | "settled": the promise of the fetch
    fetched,    \* history: what fetchProductsFromApi settled with
    search,     \* React state `search`
    category,   \* React state `category`
    sortBy,     \* React state `sortBy`
    visibleProducts, \* the memoized derived list of the latest render
    mobileMenuOpen,  \* Header: React state `mobileMenuOpen`
    profileMenuOpen, \* Header: React state `profileMenuOpen`
    searchValue,     \* Header: React state `searchValue`
    onSearch,        \* Header: whether the prop `onSearch` is given
    pathname,        \* usePathname(): the current route
    pressed,         \* the mousedown whose click is still to come
    submitted,       \* history: the latest search submission and its effects
    activated,       \* history: the latest completed press of a menu button
    email,           \* Footer: React state `email`
    status,          \* Footer: React state `status`
    message,         \* Footer: React state `message` ("null" or the text)
    onSubscribe,     \* Footer: whether the prop `onSubscribe` is given
    subscribePc,     \* "idle" | "callback" | "request": what handleSubmit awaits
    calls,           \* history: the arguments of the calls of onSubscribe
    posts,           \* history: the emails POSTed to /api/newsletter
    attempt          \* history: the latest submission, and how it failed if it did

cartVars == <<phase, cart, pending, storage, quota, writeOk, renderError,
              saved, atStart, lastOp, subtotal>>

catalogVars == <<products, loading, error, mounted, fetchPc, fetched,
                 search, category, sortBy, visibleProducts>>

headerVars == <<mobileMenuOpen, profileMenuOpen, searchValue, onSearch,
                pathname, pressed, submitted, activated>>

footerVars == <<email, status, message, onSubscribe, subscribePc, calls, posts,
                attempt>>

shellVars == <<headerVars, footerVars>>

vars == <<cartVars, catalogVars, shellVars>>

----------------------------------------------------------------------------
(* Bounds *)

MaxQty == 3
MaxDebt == 1
BigQty == 10
MaxWriteFailures == 1

(* Product ids of SAMPLE_PRODUCTS used as the catalog of the model *)
ProductIds == {"p1", "p2", "p3"}

(* quantity arguments tried for handleAddToCart and handleUpdateQty *)
AddQtys == {0 - MaxDebt, 0, 1, 2}
UpdateQtys == {0 - MaxDebt, 0, 1, 2, BigQty}

InRange(q) == (q >= 0 - MaxDebt /\ q <= MaxQty) \/ q = BigQty

----------------------------------------------------------------------------
(* Products.  A string that is searched (title, description, search text)  *)
(* is a sequence of one-character strings; a price is a number of cents    *)
(* and a rating rate a number of tenths, so that the sums and comparisons  *)
(* of the page are exact.  NoRating stands for an undefined rating.        *)

NoRating == [rate |-> 0, count |-> 0, present |-> FALSE]

Rating(rate, count) == [rate |-> rate, count |-> count, present |-> TRUE]

Product(id, title, description, price, cat, image, rating) ==
    [id |-> id, title |-> title, description |-> description,
     price |-> price, category |-> cat, image |-> image, rating |-> rating]

Sample_p1 ==
    Product("p1",
        <<"M", "i", "n", "i", "m", "a", "l", " ", "L", "e", "a", "t", "h",
          "e", "r", " ", "W", "a", "l", "l", "e", "t">>,
        <<"H", "a", "n", "d", "c", "r", "a", "f", "t", "e", "d", " ", "f",
          "u", "l", "l", "-", "g", "r", "a", "i", "n", " ", "l", "e", "a",
          "t", "h", "e", "r", " ", "w", "a", "l", "l", "e", "t", " ", "w",
          "i", "t", "h", " ", "R", "F", "I", "D", " ", "p", "r", "o", "t",
          "e", "c", "t", "i", "o", "n", ".">>,
        4900, "Accessories", "/products/wallet.jpg", Rating(46, 132))

Sample_p2 ==
    Product("p2",
        <<"C", "o", "t", "t", "o", "n", " ", "C", "r", "e", "w", " ", "T",
          "-", "S", "h", "i", "r", "t">>,
        <<"S", "o", "f", "t", ",", " ", "b", "r", "e", "a", "t", "h", "a",
          "b", "l", "e", " ", "c", "o", "t", "t", "o", "n", " ", "t", "e",
          "e", " ", "w", "i", "t", "h", " ", "m", "o", "d", "e", "r", "n",
          " ", "f", "i", "t", ".">>,
        1999, "Clothing", "/products/tshirt.jpg", Rating(43, 210))

Sample_p3 ==
    Product("p3",
        <<"W", "i", "r", "e", "l", "e", "s", "s", " ", "H", "e", "a", "d",
          "p", "h", "o", "n", "e", "s">>,
        <<"N", "o", "i", "s", "e", "-", "c", "a", "n", "c", "e", "l", "l",
          "i", "n", "g", " ", "o", "v", "e", "r", "-", "e", "a", "r", " ",
          "h", "e", "a", "d", "p", "h", "o", "n", "e", "s", " ", "w", "i",
          "t", "h", " ", "3", "0", "h", " ", "b", "a", "t", "t", "e", "r",
          "y", ".">>,
        12900, "Electronics", "/products/headphones.jpg", Rating(47, 540))

Sample_p4 ==
    Product("p4",
        <<"C", "e", "r", "a", "m", "i", "c", " ", "C", "o", "f", "f", "e",
          "e", " ", "M", "u", "g">>,
        <<"3", "5", "0", "m", "l", " ", "m", "u", "g", ",", " ", "d", "i",
          "s", "h", "w", "a", "s", "h", "e", "r", " ", "s", "a", "f", "e",
          " ", "w", "i", "t", "h", " ", "m", "a", "t", "t", "e", " ", "f",
          "i", "n", "i", "s", "h", ".">>,
        1250, "Home", "/products/mug.jpg", Rating(45, 88))

SAMPLE_PRODUCTS == <<Sample_p1, Sample_p2, Sample_p3, Sample_p4>>

(* price of the product object a cart item refers to *)
PriceOf(id) ==
    LET i == CHOOSE k \in 1..Len(SAMPLE_PRODUCTS) : SAMPLE_PRODUCTS[k].id = id
    IN SAMPLE_PRODUCTS[i].price

----------------------------------------------------------------------------
(* JSON text as a sequence of tokens *)

Absent == <<"absent">>          \* localStorage.getItem returns null
NoProduct == "none"             \* an array element without a product object

DigitChar(d) ==
    CASE d = 0 -> "0" [] d = 1 -> "1" [] d = 2 -> "2" [] d = 3 -> "3"
      [] d = 4 -> "4" [] d = 5 -> "5" [] d = 6 -> "6" [] d = 7 -> "7"
      [] d = 8 -> "8" [] d = 9 -> "9"

Digits == {DigitChar(d) : d \in 0..9}

DigitVal(c) == CHOOSE d \in 0..9 : DigitChar(d) = c

RECURSIVE NatTokens(_)
NatTokens(n) ==
    IF n < 10 THEN <<DigitChar(n)>>
    ELSE Append(NatTokens(n \div 10), DigitChar(n % 10))

(* JSON.stringify of an integer *)
NumTokens(n) == IF n < 0 THEN <<"-">> \o NatTokens(0 - n) ELSE NatTokens(n)

ItemTokens(it) ==
    <<"{", "product:", it.product, ",", "quantity:">>
        \o NumTokens(it.quantity) \o <<"}">>

RECURSIVE ItemsTokens(_)
ItemsTokens(items) ==
    IF items = <<>> THEN <<>>
    ELSE IF Len(items) = 1 THEN ItemTokens(items[1])
    ELSE ItemTokens(items[1]) \o <<",">> \o ItemsTokens(Tail(items))

(* JSON.stringify(cart) for an array of cart items *)
JSONstringify(items) == <<"[">> \o ItemsTokens(items) \o <<"]">>

Fail == [ok |-> FALSE, kind |-> "error", elems |-> <<>>, next |-> 0]

RECURSIVE ParseDigits(_, _, _)
ParseDigits(t, i, acc) ==
    IF i <= Len(t) /\ t[i] \in Digits
    THEN ParseDigits(t, i + 1, 10 * acc + DigitVal(t[i]))
    ELSE [val |-> acc, next |-> i]

(* a JSON number at position i: optional minus sign, then digits *)
ParseNumber(t, i) ==
    LET neg == i <= Len(t) /\ t[i] = "-"
        s == IF neg THEN i + 1 ELSE i
        r == ParseDigits(t, s, 0)
    IN IF r.next = s THEN [ok |-> FALSE, val |-> 0, next |-> i]
       ELSE [ok |-> TRUE, val |-> IF neg THEN 0 - r.val ELSE r.val,
             next |-> r.next]

(* one array element at position i: null, or a cart item object *)
ParseElem(t, i) ==
    IF i > Len(t) THEN [ok |-> FALSE, elem |-> <<>>, next |-> i]
    ELSE IF t[i] = "null"
    THEN [ok |-> TRUE, elem |-> [product |-> NoProduct, quantity |-> 0],
          next |-> i + 1]
    ELSE IF i + 4 <= Len(t) /\ t[i] = "{" /\ t[i + 1] = "product:"
            /\ t[i + 2] \in ProductIds /\ t[i + 3] = ","
            /\ t[i + 4] = "quantity:"
    THEN LET n == ParseNumber(t, i + 5)
         IN IF n.ok /\ n.next <= Len(t) /\ t[n.next] = "}"
            THEN [ok |-> TRUE,
                  elem |-> [product |-> t[i + 2], quantity |-> n.val],
                  next |-> n.next + 1]
            ELSE [ok |-> FALSE, elem |-> <<>>, next |-> i]
    ELSE [ok |-> FALSE, elem |-> <<>>, next |-> i]

RECURSIVE ParseElems(_, _, _)
ParseElems(t, i, acc) ==
    LET e == ParseElem(t, i)
    IN IF ~e.ok THEN Fail
       ELSE IF e.next <= Len(t) /\ t[e.next] = ","
       THEN ParseElems(t, e.next + 1, Append(acc, e.elem))
       ELSE IF e.next = Len(t) /\ t[e.next] = "]"
       THEN [ok |-> TRUE, kind |-> "array", elems |-> Append(acc, e.elem),
             next |-> e.next + 1]
       ELSE Fail

(* JSON.parse(raw): ok = FALSE stands for the SyntaxError it throws *)
JSONparse(t) ==
    IF t = <<>> THEN Fail
    ELSE IF t = <<"null">>
    THEN [ok |-> TRUE, kind |-> "null", elems |-> <<>>, next |-> 2]
    ELSE IF t = <<"{", "}">>
    THEN [ok |-> TRUE, kind |-> "object", elems |-> <<>>, next |-> 3]
    ELSE IF t = <<"[", "]">>
    THEN [ok |-> TRUE, kind |-> "array", elems |-> <<>>, next |-> 3]
    ELSE IF t[1] = "[" THEN ParseElems(t, 2, <<>>)
    ELSE Fail

(* slot contents the page did not write itself *)
ForeignTexts ==
    { <<>>,                      \* empty string
      <<"[", "{">>,              \* truncated JSON
      <<"x">>,                   \* not JSON
      <<"null">>,                \* JSON null
      <<"{", "}">>,              \* JSON object
      <<"[", "null", "]">> }     \* JSON array of a null

----------------------------------------------------------------------------
(* Cart helpers *)

Ids(items) == {items[i].product : i \in 1..Len(items)}

(* Array.prototype.findIndex on product.id, 0 standing for -1 *)
FindIndex(items, id) ==
    IF \E i \in 1..Len(items) : items[i].product = id
    THEN CHOOSE i \in 1..Len(items) :
            /\ items[i].product = id
            /\ \A j \in 1..(i - 1) : items[j].product # id
    ELSE 0

(* variants of handleAddToCart's updater: no lookup of an existing item,   *)
(* and assignment instead of increment                                     *)
AddResultAlwaysAppend(prev, id, qty) ==
    Append(prev, [product |-> id, quantity |-> qty])

AddResultOverwrite(prev, id, qty) ==
    LET idx == FindIndex(prev, id)
    IN IF idx > 0
       THEN [prev EXCEPT ![idx].quantity = qty]
       ELSE Append(prev, [product |-> id, quantity |-> qty])

AddResult(prev, id, qty) ==
    LET idx == FindIndex(prev, id)
    IN IF idx > 0
       THEN [prev EXCEPT ![idx].quantity = prev[idx].quantity + qty]
       ELSE Append(prev, [product |-> id, quantity |-> qty])

KeepPositive(it) == it.quantity > 0

UpdateQtyResult(prev, id, quantity) ==
    LET mapped == [i \in 1..Len(prev) |->
                     IF prev[i].product = id
                     THEN [prev[i] EXCEPT !.quantity = quantity]
                     ELSE prev[i]]
    IN SelectSeq(mapped, KeepPositive)

(* variant of handleRemove's filter that also applies the quantity test    *)
RemoveResultPositiveOnly(prev, id) ==
    LET Other(it) == it.product # id /\ it.quantity > 0
    IN SelectSeq(prev, Other)

RemoveResult(prev, id) ==
    LET Other(it) == it.product # id
    IN SelectSeq(prev, Other)

(* variants of the subtotal: the quantity left out, and a reduce without   *)
(* initial value, which starts from the first item instead of adding it    *)
SubtotalOfPrices(items) ==
    LET RECURSIVE Sum(_)
        Sum(k) == IF k = 0 THEN 0 ELSE Sum(k - 1) + PriceOf(items[k].product)
    IN Sum(Len(items))

SubtotalFromSecond(items) ==
    LET RECURSIVE Sum(_)
        Sum(k) == IF k <= 1 THEN 0
                  ELSE Sum(k - 1) + PriceOf(items[k].product) * items[k].quantity
    IN Sum(Len(items))

(* cart.reduce((sum, item) => sum + item.product.price * item.quantity, 0) *)
Subtotal(items) ==
    LET RECURSIVE Sum(_)
        Sum(k) == IF k = 0 THEN 0
                  ELSE Sum(k - 1) + PriceOf(items[k].product) * items[k].quantity
    IN Sum(Len(items))

(* what a render of Page and CartDrawer needs of the cart state *)
Renderable(v) ==
    /\ v.kind = "array"
    /\ \A i \in 1..Len(v.elems) : v.elems[i].product # NoProduct

NoPending == [ok |-> FALSE, kind |-> "error", elems |-> <<>>, next |-> 0]

Op(name, id, qty, prev) == [op |-> name, id |-> id, qty |-> qty, prev |-> prev]

----------------------------------------------------------------------------
(* The persist effect: localStorage.setItem(KEY, JSON.stringify(cart)),    *)
(* inside try/catch.  The call either stores the text or throws, which     *)
(* the browser does while `quota` is positive.                             *)

(* variant of the persist effect that does not write an empty cart         *)
PersistEffectSkipEmpty(items) ==
    \/ /\ items # <<>>
       /\ storage' = JSONstringify(items)
       /\ saved' = [ok |-> TRUE, cart |-> items]
       /\ writeOk' = TRUE
       /\ UNCHANGED quota
    \/ /\ items = <<>>
       /\ writeOk' = TRUE
       /\ UNCHANGED <<storage, saved, quota>>
    \/ /\ quota > 0
       /\ quota' = quota - 1
       /\ writeOk' = FALSE
       /\ UNCHANGED <<storage, saved>>

PersistEffect(items) ==
    \/ /\ storage' = JSONstringify(items)
       /\ saved' = [ok |-> TRUE, cart |-> items]
       /\ writeOk' = TRUE
       /\ UNCHANGED quota
    \/ /\ quota > 0
       /\ quota' = quota - 1
       /\ writeOk' = FALSE
       /\ UNCHANGED <<storage, saved>>

----------------------------------------------------------------------------
(* The catalog part of the page before its fetch effect has run *)

NoFetch == [settled |-> FALSE, rejected |-> FALSE, data |-> <<>>,
            response |-> "none", elements |-> 0]

NoSubmit == [done |-> FALSE, value |-> <<>>, navigated |-> FALSE, url |-> <<>>,
             handled |-> FALSE, arg |-> <<>>]

NoPress == [button |-> "none", before |-> FALSE]

NoPressed == [target |-> "none", before |-> FALSE]

NoAttempt == [email |-> <<>>, valid |-> FALSE, kind |-> "none", via |-> "none",
              count |-> 0]

(* the cart part of the page before it is mounted, on an empty slot *)
CartIdle ==
    /\ phase = "closed"
    /\ cart = <<>>
    /\ pending = NoPending
    /\ storage = Absent
    /\ quota = 0
    /\ writeOk = TRUE
    /\ renderError = FALSE
    /\ saved = [ok |-> FALSE, cart |-> <<>>]
    /\ atStart = [ok |-> FALSE, cart |-> <<>>]
    /\ lastOp = Op("none", "-", 0, <<>>)
    /\ subtotal = 0

(* Header and Footer as first rendered, without injected handlers *)
ShellIdle ==
    /\ mobileMenuOpen = FALSE
    /\ profileMenuOpen = FALSE
    /\ searchValue = <<>>
    /\ onSearch = FALSE
    /\ pathname = "/"
    /\ pressed = NoPressed
    /\ submitted = NoSubmit
    /\ activated = NoPress
    /\ email = <<>>
    /\ status = "idle"
    /\ message = "null"
    /\ onSubscribe = FALSE
    /\ subscribePc = "idle"
    /\ calls = <<>>
    /\ posts = <<>>
    /\ attempt = NoAttempt

CatalogIdle ==
    /\ products = <<>>
    /\ loading = TRUE
    /\ error = "null"
    /\ mounted = FALSE
    /\ fetchPc = "idle"
    /\ fetched = NoFetch
    /\ search = <<>>
    /\ category = "All"
    /\ sortBy = "featured"
    /\ visibleProducts = <<>>

----------------------------------------------------------------------------
(* The cart part of the page *)

Init ==
    /\ phase = "closed"
    /\ cart = <<>>
    /\ pending = NoPending
    /\ storage \in {Absent} \cup ForeignTexts
    /\ quota = 0
    /\ writeOk = TRUE
    /\ renderError = FALSE
    /\ saved = [ok |-> FALSE, cart |-> <<>>]
    /\ atStart = [ok |-> FALSE, cart |-> <<>>]
    /\ lastOp = Op("none", "-", 0, <<>>)
    /\ subtotal = 0
    /\ CatalogIdle
    /\ ShellIdle

(* variant of the first commit in which the persist effect is declared     *)
(* before the load effect, so the slot is read after it was overwritten    *)
MountPersistFirst ==
    /\ phase = "closed"
    /\ cart' = <<>>
    /\ renderError' = FALSE
    /\ atStart' = saved
    /\ lastOp' = Op("mount", "-", 0, <<>>)
    /\ subtotal' = Subtotal(<<>>)
    /\ UNCHANGED <<catalogVars, shellVars>>
    /\ PersistEffect(<<>>)
    /\ LET raw == storage'
           parsed == JSONparse(raw)
           queued == raw # Absent /\ raw # <<>> /\ parsed.ok
       IN /\ pending' = IF queued THEN parsed ELSE NoPending
          /\ phase' = IF queued THEN "hydrating" ELSE "ready"

(* First render and commit of Page: cart is [], the load effect reads and  *)
(* parses the slot and queues setCart(parsed), then the persist effect     *)
(* runs with the cart of this render.                                      *)
Mount ==
    /\ phase = "closed"
    /\ cart' = <<>>
    /\ renderError' = FALSE
    /\ atStart' = saved
    /\ lastOp' = Op("mount", "-", 0, <<>>)
    /\ subtotal' = Subtotal(<<>>)
    /\ UNCHANGED <<catalogVars, shellVars>>
    /\ LET raw == storage
           parsed == JSONparse(raw)
           queued == raw # Absent /\ raw # <<>> /\ parsed.ok
       IN /\ pending' = IF queued THEN parsed ELSE NoPending
          /\ phase' = IF queued THEN "hydrating" ELSE "ready"
    /\ PersistEffect(<<>>)

(* Re-render with the queued state.  A render that throws leaves the error *)
(* screen and runs no effect; otherwise the persist effect runs because    *)
(* the cart changed.                                                       *)
Hydrate ==
    /\ phase = "hydrating"
    /\ pending' = NoPending
    /\ lastOp' = Op("hydrate", "-", 0, <<>>)
    /\ UNCHANGED <<atStart, catalogVars, shellVars>>
    /\ IF Renderable(pending)
       THEN /\ cart' = pending.elems
            /\ subtotal' = Subtotal(pending.elems)
            /\ phase' = "ready"
            /\ renderError' = FALSE
            /\ PersistEffect(pending.elems)
       ELSE /\ phase' = "crashed"
            /\ renderError' = TRUE
            /\ UNCHANGED <<cart, subtotal, storage, saved, quota, writeOk>>

NoStart == [ok |-> FALSE, cart |-> <<>>]

(* variant of handleAddToCart that writes the slot itself, outside any     *)
(* try/catch and before setCart: a rejected write skips the state update   *)
handleAddToCartWriteFirst(id, qty) ==
    /\ phase = "ready"
    /\ InRange(AddResult(cart, id, qty)[IF FindIndex(cart, id) > 0
                                        THEN FindIndex(cart, id)
                                        ELSE Len(cart) + 1].quantity)
    /\ PersistEffect(AddResult(cart, id, qty))
    /\ cart' = IF writeOk' THEN AddResult(cart, id, qty) ELSE cart
    /\ lastOp' = Op("add", id, qty, cart)
    /\ atStart' = NoStart
    /\ subtotal' = Subtotal(cart')
    /\ UNCHANGED <<phase, pending, renderError, catalogVars, shellVars>>

handleAddToCart(id, qty) ==
    /\ phase = "ready"
    /\ InRange(AddResult(cart, id, qty)[IF FindIndex(cart, id) > 0
                                        THEN FindIndex(cart, id)
                                        ELSE Len(cart) + 1].quantity)
    /\ cart' = AddResult(cart, id, qty)
    /\ lastOp' = Op("add", id, qty, cart)
    /\ atStart' = NoStart
    /\ subtotal' = Subtotal(cart')
    /\ PersistEffect(cart')
    /\ UNCHANGED <<phase, pending, renderError, catalogVars, shellVars>>

handleUpdateQty(id, quantity) ==
    /\ phase = "ready"
    /\ cart' = UpdateQtyResult(cart, id, quantity)
    /\ lastOp' = Op("update", id, quantity, cart)
    /\ atStart' = NoStart
    /\ subtotal' = Subtotal(cart')
    /\ PersistEffect(cart')
    /\ UNCHANGED <<phase, pending, renderError, catalogVars, shellVars>>

handleRemove(id) ==
    /\ phase = "ready"
    /\ cart' = RemoveResult(cart, id)
    /\ lastOp' = Op("remove", id, 0, cart)
    /\ atStart' = NoStart
    /\ subtotal' = Subtotal(cart')
    /\ PersistEffect(cart')
    /\ UNCHANGED <<phase, pending, renderError, catalogVars, shellVars>>

handleClearCart ==
    /\ phase = "ready"
    /\ cart' = <<>>
    /\ lastOp' = Op("clear", "-", 0, cart)
    /\ atStart' = NoStart
    /\ subtotal' = Subtotal(cart')
    /\ PersistEffect(cart')
    /\ UNCHANGED <<phase, pending, renderError, catalogVars, shellVars>>

(* The page goes away (navigation, tab closed); React state is dropped.    *)
Teardown ==
    /\ phase # "closed"
    /\ phase' = "closed"
    /\ cart' = <<>>
    /\ pending' = NoPending
    /\ renderError' = FALSE
    /\ atStart' = NoStart
    /\ lastOp' = Op("none", "-", 0, <<>>)
    /\ subtotal' = 0
    /\ UNCHANGED <<storage, quota, writeOk, saved, catalogVars, shellVars>>

Next ==
    \/ Mount
    \/ Hydrate
    \/ \E id \in ProductIds, qty \in AddQtys : handleAddToCart(id, qty)
    \/ \E id \in ProductIds, q \in UpdateQtys : handleUpdateQty(id, q)
    \/ \E id \in ProductIds : handleRemove(id)
    \/ handleClearCart
    \/ Teardown

Spec == Init /\ [][Next]_vars

(* The same page in a browser that rejects up to MaxWriteFailures setItem  *)
(* calls (quota exceeded, storage disabled), over two of the products.     *)
QuotaIds == {"p1", "p2"}

InitQuota ==
    /\ phase = "closed"
    /\ cart = <<>>
    /\ pending = NoPending
    /\ storage \in {Absent} \cup ForeignTexts
    /\ quota = MaxWriteFailures
    /\ writeOk = TRUE
    /\ renderError = FALSE
    /\ saved = [ok |-> FALSE, cart |-> <<>>]
    /\ atStart = [ok |-> FALSE, cart |-> <<>>]
    /\ lastOp = Op("none", "-", 0, <<>>)
    /\ subtotal = 0
    /\ CatalogIdle
    /\ ShellIdle

NextQuota ==
    \/ Mount
    \/ Hydrate
    \/ \E id \in QuotaIds, qty \in AddQtys : handleAddToCart(id, qty)
    \/ \E id \in QuotaIds, q \in UpdateQtys : handleUpdateQty(id, q)
    \/ \E id \in QuotaIds : handleRemove(id)
    \/ handleClearCart
    \/ Teardown

SpecQuota == InitQuota /\ [][NextQuota]_vars

----------------------------------------------------------------------------
(* Properties of the cart store *)

CartOps == {"add", "update", "remove", "clear"}

Pairs(items) == [i \in 1..Len(items) |-> <<items[i].product, items[i].quantity>>]

(* the sequence `items` without its k-th element *)
DropAt(items, k) ==
    [i \in 1..(Len(items) - 1) |-> IF i < k THEN items[i] ELSE items[i + 1]]

(* C1: in every reachable state the cart holds at most one CartItem per    *)
(* product identifier.                                                     *)
C1_AtMostOneItemPerProduct ==
    \A i, j \in 1..Len(cart) : cart[i].product = cart[j].product => i = j

(* an Add of a product already in a cart of several items has happened *)
C1_Witness ==
    /\ lastOp.op = "add"
    /\ lastOp.id \in Ids(lastOp.prev)
    /\ Len(lastOp.prev) >= 2
    /\ Len(cart) = Len(lastOp.prev)

(* C2: every CartItem retained in the cart has a quantity that is a        *)
(* positive integer, after any sequence of cart operations.                *)
C2_QuantitiesPositive ==
    \A i \in 1..Len(cart) : cart[i].quantity > 0

(* C3: Add(product, quantity) on a cart that has the product leaves length *)
(* and order unchanged and grows only that item's quantity by `quantity`;  *)
(* otherwise it appends exactly one new item with that quantity.           *)
C3_AddIncrementsOrAppends ==
    lastOp.op = "add" =>
        LET prev == lastOp.prev
            id == lastOp.id
            qty == lastOp.qty
        IN IF id \in Ids(prev)
           THEN /\ Len(cart) = Len(prev)
                /\ \A i \in 1..Len(prev) :
                      /\ cart[i].product = prev[i].product
                      /\ cart[i].quantity =
                            IF prev[i].product = id
                            THEN prev[i].quantity + qty
                            ELSE prev[i].quantity
           ELSE /\ Len(cart) = Len(prev) + 1
                /\ SubSeq(cart, 1, Len(prev)) = prev
                /\ cart[Len(cart)] = [product |-> id, quantity |-> qty]

(* Add(P, 2) on a cart of several items where P has quantity 1: P has 3 *)
C3_Witness ==
    /\ lastOp.op = "add"
    /\ lastOp.qty = 2
    /\ Len(lastOp.prev) >= 2
    /\ \E i \in 1..Len(lastOp.prev) :
          /\ lastOp.prev[i] = [product |-> lastOp.id, quantity |-> 1]
          /\ cart[i] = [product |-> lastOp.id, quantity |-> 3]

(* C4: UpdateQuantity(productId, newQuantity) on a cart that has the item: *)
(* with newQuantity > 0 the item keeps its position and has quantity       *)
(* newQuantity; with newQuantity <= 0 the cart has no item for productId.  *)
C4_UpdateSetsInPlaceOrRemoves ==
    (lastOp.op = "update" /\ lastOp.id \in Ids(lastOp.prev)) =>
        LET k == FindIndex(lastOp.prev, lastOp.id)
        IN IF lastOp.qty > 0
           THEN /\ k <= Len(cart)
                /\ cart[k] = [product |-> lastOp.id, quantity |-> lastOp.qty]
           ELSE lastOp.id \notin Ids(cart)

(* C5: UpdateQuantity(productId, q) is a no-op when no CartItem has that   *)
(* productId, and never changes or removes an item other than the one      *)
(* matching productId.                                                     *)
C5_UpdateTouchesOnlyMatch ==
    lastOp.op = "update" =>
        /\ lastOp.id \notin Ids(lastOp.prev) => Pairs(cart) = Pairs(lastOp.prev)
        /\ \A i \in 1..Len(lastOp.prev) :
              lastOp.prev[i].product # lastOp.id =>
                  \E j \in 1..Len(cart) : cart[j] = lastOp.prev[i]

(* C6: Remove(productId) removes the item with that identifier whatever    *)
(* its quantity, leaves every other item with its quantity and relative    *)
(* order, and is a no-op when the identifier is absent.                    *)
C6_RemoveDropsExactlyMatch ==
    lastOp.op = "remove" =>
        /\ lastOp.id \notin Ids(cart)
        /\ IF lastOp.id \in Ids(lastOp.prev)
           THEN cart = DropAt(lastOp.prev, FindIndex(lastOp.prev, lastOp.id))
           ELSE cart = lastOp.prev

(* the middle one of three items, of quantity 0, was removed *)
C6_Witness ==
    /\ lastOp.op = "remove"
    /\ Len(lastOp.prev) = 3
    /\ lastOp.prev[2].product = lastOp.id
    /\ lastOp.prev[1].quantity = 0
    /\ Len(cart) = 2

(* C7: once a mutating cart operation has been processed and its storage   *)
(* write succeeded, the slot holds the serialization of the full current   *)
(* cart, in order.                                                         *)
C7_SlotMirrorsCart ==
    (phase = "ready" /\ lastOp.op \in CartOps /\ writeOk) =>
        /\ storage = JSONstringify(cart)
        /\ JSONparse(storage).ok
        /\ JSONparse(storage).kind = "array"
        /\ JSONparse(storage).elems = cart

(* a Clear of a non-empty cart was persisted after an earlier write failed *)
C7_Witness ==
    /\ phase = "ready"
    /\ lastOp.op = "clear"
    /\ Len(lastOp.prev) >= 2
    /\ writeOk
    /\ quota < MaxWriteFailures
    /\ storage = <<"[", "]">>

(* C8: for a non-empty cart persisted by a session, a fresh start of the   *)
(* page ends with a cart whose (productId, quantity) pairs equal the       *)
(* persisted ones.                                                         *)
C8_RoundTrip ==
    (atStart.ok /\ atStart.cart # <<>>) =>
        /\ phase # "crashed"
        /\ phase = "ready" => /\ lastOp.op = "hydrate"
                              /\ Pairs(cart) = Pairs(atStart.cart)

(* a persisted cart of two items, one with a two-digit quantity, reloaded *)
C8_Witness ==
    /\ phase = "ready"
    /\ lastOp.op = "hydrate"
    /\ atStart.ok
    /\ Len(atStart.cart) = 2
    /\ \E i \in 1..2 : atStart.cart[i].quantity = BigQty
    /\ Len(cart) = 2

(* C9: between page start and the first user cart operation, a page that   *)
(* started with a persisted non-empty cart never has any value other than  *)
(* that cart in the slot.                                                  *)
C9_StartupKeepsSlot ==
    (lastOp.op \in {"mount", "hydrate"} /\ atStart.ok /\ atStart.cart # <<>>) =>
        storage = JSONstringify(atStart.cart)

(* C10: for every content of the storage slot, hydration raises no         *)
(* user-visible error; on absence or parse failure the cart is empty.      *)
C10_HydrationNeverFails ==
    /\ ~renderError
    /\ (phase = "ready" /\ lastOp.op = "mount") => cart = <<>>

(* quantity the cart holds for a product, 0 when it has no item for it *)
QuantityOf(items, id) ==
    IF id \in Ids(items) THEN items[FindIndex(items, id)].quantity ELSE 0

(* C11: once a storage write has failed, the failure is swallowed: no      *)
(* error state is entered and the cart reflects the operation that         *)
(* triggered the write and every later operation as if the write had       *)
(* succeeded.                                                              *)
C11_WriteFailureSwallowed ==
    (lastOp.op \in CartOps /\ quota < MaxWriteFailures) =>
        /\ phase = "ready"
        /\ ~renderError
        /\ lastOp.op = "add" =>
              /\ QuantityOf(cart, lastOp.id) =
                    QuantityOf(lastOp.prev, lastOp.id) + lastOp.qty
              /\ lastOp.id \in Ids(cart)
              /\ \A id \in Ids(lastOp.prev) \ {lastOp.id} :
                    QuantityOf(cart, id) = QuantityOf(lastOp.prev, id)
        /\ lastOp.op = "update" =>
              cart = UpdateQtyResult(lastOp.prev, lastOp.id, lastOp.qty)
        /\ lastOp.op = "remove" => cart = RemoveResult(lastOp.prev, lastOp.id)
        /\ lastOp.op = "clear" => cart = <<>>

(* the write of an Add that changed the cart was rejected: the slot still  *)
(* holds the cart before it                                                *)
C11_Witness ==
    /\ lastOp.op = "add"
    /\ ~writeOk
    /\ lastOp.prev # <<>>
    /\ cart # lastOp.prev
    /\ storage = JSONstringify(lastOp.prev)

(* C12 as stated: after adding the product priced 19.99 with quantity 2    *)
(* and the product priced 49.00 with quantity 1 the subtotal is 87.98.     *)
C12_SubtotalIs8798 ==
    (phase = "ready" /\ Len(cart) = 2 /\ QuantityOf(cart, "p2") = 2
        /\ QuantityOf(cart, "p1") = 1) => subtotal = 8798

(* C12 amended: that subtotal is 88.98 (8898 cents).                       *)
C12_SubtotalIs8898 ==
    (phase = "ready" /\ Len(cart) = 2 /\ QuantityOf(cart, "p2") = 2
        /\ QuantityOf(cart, "p1") = 1) => subtotal = 8898

(* the two products were added, in that order *)
C12_Witness ==
    /\ phase = "ready"
    /\ lastOp.op = "add"
    /\ cart = <<[product |-> "p2", quantity |-> 2],
                [product |-> "p1", quantity |-> 1]>>

(* C13: in every state in which the drawer is rendered the displayed       *)
(* subtotal is the sum over the current cart items of price x quantity.    *)
C13_SubtotalFollowsCart ==
    phase \in {"hydrating", "ready"} =>
        subtotal = PriceOf("p1") * QuantityOf(cart, "p1")
                 + PriceOf("p2") * QuantityOf(cart, "p2")
                 + PriceOf("p3") * QuantityOf(cart, "p3")

(* an operation has just changed a cart of three items with a non-zero sum *)
C13_Witness ==
    /\ phase = "ready"
    /\ lastOp.op \in {"add", "update"}
    /\ Len(cart) = 3
    /\ cart # lastOp.prev
    /\ cart[1].quantity > 0
    /\ subtotal > 0

----------------------------------------------------------------------------
(* Strings of the catalog *)

ToLower(c) ==
    CASE c = "A" -> "a" [] c = "B" -> "b" [] c = "C" -> "c" [] c = "D" -> "d"
      [] c = "E" -> "e" [] c = "F" -> "f" [] c = "G" -> "g" [] c = "H" -> "h"
      [] c = "I" -> "i" [] c = "J" -> "j" [] c = "K" -> "k" [] c = "L" -> "l"
      [] c = "M" -> "m" [] c = "N" -> "n" [] c = "O" -> "o" [] c = "P" -> "p"
      [] c = "Q" -> "q" [] c = "R" -> "r" [] c = "S" -> "s" [] c = "T" -> "t"
      [] c = "U" -> "u" [] c = "V" -> "v" [] c = "W" -> "w" [] c = "X" -> "x"
      [] c = "Y" -> "y" [] c = "Z" -> "z" [] OTHER -> c

(* String.prototype.toLowerCase *)
toLowerCase(str) == [i \in 1..Len(str) |-> ToLower(str[i])]

(* String.prototype.includes *)
includes(str, q) ==
    \E i \in 0..(Len(str) - Len(q)) : SubSeq(str, i + 1, i + Len(q)) = q

(* String.prototype.trim *)
RECURSIVE trim(_)
trim(str) ==
    IF str = <<>> THEN <<>>
    ELSE IF Head(str) = " " THEN trim(Tail(str))
    ELSE IF str[Len(str)] = " " THEN trim(SubSeq(str, 1, Len(str) - 1))
    ELSE str

----------------------------------------------------------------------------
(* The response of GET /api/products and fetchProductsFromApi.             *)
(* An element of a JSON array body is null, a number, or an object; `has`  *)
(* is the set of the fields the object carries.                            *)

RawObject(has, id, title, name, description, price, cat, rating) ==
    [kind |-> "object", has |-> has, id |-> id, title |-> title,
     name |-> name, description |-> description, price |-> price,
     category |-> cat, rating |-> rating]

RawNull == [RawObject({}, "-", <<>>, <<>>, <<>>, 0, "-", NoRating)
               EXCEPT !.kind = "null"]

RawNumber == [RawObject({}, "-", <<>>, <<>>, <<>>, 0, "-", NoRating)
                 EXCEPT !.kind = "number"]

(* the elements array bodies are built from *)
RawPool ==
    { RawObject({"id", "title", "price", "category", "rating"}, "a",
                <<"M", "u", "g">>, <<>>, <<>>, 500, "Home", Rating(40, 3)),
      RawObject({"id", "title", "description", "price", "category"}, "b",
                <<"T", "e", "a", " ", "M", "u", "g">>, <<>>,
                <<"B", "i", "g", " ", "m", "u", "g">>, 500, "Home", NoRating),
      RawObject({"id", "name", "price", "category", "rating"}, "c",
                <<>>, <<"C", "U", "P">>, <<>>, 300, "Kitchen", Rating(0, 0)),
      RawObject({}, "-", <<>>, <<>>, <<>>, 0, "-", NoRating),
      RawNumber,
      RawNull }

(* Math.random().toString(36).slice(2) at the i-th element: successive     *)
(* calls give different strings                                            *)
RandomId(i) ==
    CASE i = 1 -> "r1" [] i = 2 -> "r2" [] i = 3 -> "r3" [] i = 4 -> "r4"
      [] OTHER -> "r5"

(* the object literal of data.map; it throws on a null element, where      *)
(* p.id is a property access on null                                       *)
Coerce(p, rnd) ==
    LET Has(f) == p.kind = "object" /\ f \in p.has
    IN Product(IF Has("id") THEN p.id ELSE rnd,
               IF Has("title") THEN p.title
               ELSE IF Has("name") THEN p.name
               ELSE <<"U", "n", "t", "i", "t", "l", "e", "d", " ",
                      "p", "r", "o", "d", "u", "c", "t">>,
               IF Has("description") THEN p.description ELSE <<>>,
               IF Has("price") THEN p.price ELSE 0,
               IF Has("category") THEN p.category ELSE "Uncategorized",
               "",
               IF Has("rating") THEN p.rating ELSE NoRating)

ResponseKinds == {"networkError", "notOk", "malformed", "notArray", "array"}

Response(kind, body) == [kind |-> kind, body |-> body]

(* the try block: `threw` when fetch rejects, res.ok is false, res.json()  *)
(* rejects, the body is not an array, or the mapping throws                *)
TryFetch(resp) ==
    IF resp.kind # "array"
    THEN [threw |-> TRUE, value |-> <<>>]
    ELSE IF \E i \in 1..Len(resp.body) : resp.body[i].kind = "null"
    THEN [threw |-> TRUE, value |-> <<>>]
    ELSE [threw |-> FALSE,
          value |-> [i \in 1..Len(resp.body) |->
                       Coerce(resp.body[i], RandomId(i))]]

(* variant of the catch block that gives an empty catalog *)
CatchEmpty(resp) == [settled |-> TRUE, rejected |-> FALSE, data |-> <<>>,
                     response |-> resp.kind, elements |-> Len(resp.body)]

(* the catch block: fall back to the sample products *)
CatchFallback(resp) ==
    [settled |-> TRUE, rejected |-> FALSE, data |-> SAMPLE_PRODUCTS,
     response |-> resp.kind, elements |-> Len(resp.body)]

(* variant of fetchProductsFromApi without the try/catch: what is thrown   *)
(* inside rejects the promise                                              *)
fetchProductsFromApiNoCatch(resp) ==
    LET t == TryFetch(resp)
    IN [settled |-> TRUE, rejected |-> t.threw, data |-> t.value,
        response |-> resp.kind, elements |-> Len(resp.body)]

fetchProductsFromApi(resp) ==
    LET t == TryFetch(resp)
    IN IF t.threw THEN CatchFallback(resp)
       ELSE [settled |-> TRUE, rejected |-> FALSE, data |-> t.value,
             response |-> resp.kind, elements |-> Len(resp.body)]

----------------------------------------------------------------------------
(* The derived list (useMemo of visibleProducts).  An array value carries  *)
(* `shared`: whether it is the very array object held by `products`, so    *)
(* that the in-place sort shows in the catalog when it is.                 *)

(* variant of products.slice() that keeps working on the same array *)
SliceShared(arr) == [items |-> arr, shared |-> TRUE]

(* products.slice(): a fresh copy *)
Slice(arr) == [items |-> arr, shared |-> FALSE]

(* variant of the search test that matches the trimmed text *)
MatchesSearchTrimmed(p, srch) ==
    LET q == toLowerCase(trim(srch))
    IN includes(toLowerCase(p.title), q) \/ includes(toLowerCase(p.description), q)

(* the predicate of the search filter, q = search.toLowerCase() *)
MatchesSearch(p, srch) ==
    LET q == toLowerCase(srch)
    IN includes(toLowerCase(p.title), q) \/ includes(toLowerCase(p.description), q)

(* variant of the category test that lets uncategorized products through *)
MatchesCategoryLoose(p, cat) == p.category = cat \/ p.category = "Uncategorized"

(* the predicate of the category filter *)
MatchesCategory(p, cat) == p.category = cat

RateOf(p) == IF p.rating.present THEN p.rating.rate ELSE 0

(* the comparators handed to sort *)
ByPriceAsc(a, b) == a.price - b.price

(* variant of the descending comparator copied from the ascending one *)
ByPriceDescCopied(a, b) == a.price - b.price

ByPriceDesc(a, b) == b.price - a.price

ByRating(a, b) == RateOf(b) - RateOf(a)

(* variant of the insert position that moves an element past its equals *)
InsertPositionStrict(c) ==
    LET keep == {j \in 1..Len(c) : c[j] < 0}
    IN IF keep = {} THEN 0 ELSE CHOOSE j \in keep : \A i \in keep : i <= j

(* where the insertion puts x, given c[j] = cmp(sorted[j], x): behind the  *)
(* last element that does not compare greater                              *)
InsertPosition(c) ==
    LET keep == {j \in 1..Len(c) : c[j] <= 0}
    IN IF keep = {} THEN 0 ELSE CHOOSE j \in keep : \A i \in keep : i <= j

(* the comparator the branch for sort key `sort` hands to list.sort *)
Comparator(sort, a, b) ==
    CASE sort = "price-asc" -> ByPriceAsc(a, b)
      [] sort = "price-desc" -> ByPriceDesc(a, b)
      [] sort = "rating" -> ByRating(a, b)

(* list.sort(cmp) with the comparator of `sort`: Array.prototype.sort, a   *)
(* stable sort (ECMAScript 2019), as an insertion sort                     *)
ArraySort(list, sort) ==
    LET Insert(sorted, x) ==
            LET k == InsertPosition([j \in 1..Len(sorted) |->
                                        Comparator(sort, sorted[j], x)])
            IN SubSeq(sorted, 1, k) \o <<x>> \o SubSeq(sorted, k + 1, Len(sorted))
        RECURSIVE Run(_)
        Run(n) == IF n = 0 THEN <<>> ELSE Insert(Run(n - 1), list[n])
    IN Run(Len(list))

SortKeys == {"featured", "price-asc", "price-desc", "rating"}

(* variant of the sort step in which featured orders by price *)
SortedByAlways(items, sort) ==
    IF sort = "price-desc" THEN ArraySort(items, "price-desc")
    ELSE IF sort = "rating" THEN ArraySort(items, "rating")
    ELSE ArraySort(items, "price-asc")

(* the if / else-if chain on sortBy; featured leaves the order *)
SortedBy(items, sort) ==
    IF sort = "price-asc" THEN ArraySort(items, "price-asc")
    ELSE IF sort = "price-desc" THEN ArraySort(items, "price-desc")
    ELSE IF sort = "rating" THEN ArraySort(items, "rating")
    ELSE items

(* the two filters, each of which makes a new array *)
Filtered(l0, srch, cat) ==
    LET BySearch(p) == MatchesSearch(p, srch)
        ByCategory(p) == MatchesCategory(p, cat)
        l1 == IF trim(srch) # <<>>
              THEN [items |-> SelectSeq(l0.items, BySearch), shared |-> FALSE]
              ELSE l0
    IN IF cat # "All"
       THEN [items |-> SelectSeq(l1.items, ByCategory), shared |-> FALSE]
       ELSE l1

(* the body of the useMemo: the list it returns and the array held by      *)
(* `products` after it ran                                                 *)
DeriveVisible(prods, srch, cat, sort) ==
    LET l2 == Filtered(Slice(prods), srch, cat)
        result == SortedBy(l2.items, sort)
    IN [list |-> result,
        catalog |-> IF l2.shared THEN result ELSE prods]

(* the options of the category select: All and the sorted categories *)
categories(prods) ==
    {"All"} \cup ({prods[i].category : i \in 1..Len(prods)} \ {""})

----------------------------------------------------------------------------
(* The catalog part of the page: fetch effect, filter controls, teardown   *)

MaxCatalog == 3

SearchStrings ==
    { <<>>, <<" ">>, <<"m", "u", "g">>, <<"M", "U">>, <<" ", "m">>,
      <<"u", "p", " ">> }

ArrayBodies ==
    UNION {[1..n -> RawPool] : n \in 0..MaxCatalog}

Responses ==
    {Response(k, <<>>) : k \in ResponseKinds \ {"array"}}
        \cup {Response("array", b) : b \in ArrayBodies}

(* the page right after its first commit: the fetch effect has set         *)
(* loading and started the request; the cart part is left aside            *)
InitCatalog ==
    /\ phase = "closed"
    /\ cart = <<>>
    /\ pending = NoPending
    /\ storage = Absent
    /\ quota = 0
    /\ writeOk = TRUE
    /\ renderError = FALSE
    /\ saved = [ok |-> FALSE, cart |-> <<>>]
    /\ atStart = [ok |-> FALSE, cart |-> <<>>]
    /\ lastOp = Op("none", "-", 0, <<>>)
    /\ subtotal = 0
    /\ products = <<>>
    /\ loading = TRUE
    /\ error = "null"
    /\ mounted = TRUE
    /\ fetchPc = "pending"
    /\ fetched = NoFetch
    /\ search = <<>>
    /\ category = "All"
    /\ sortBy = "featured"
    /\ visibleProducts = <<>>
    /\ ShellIdle

(* a render: the memo recomputes the list from the state of that render *)
Render(prods, srch, cat, sort) ==
    \E d \in {DeriveVisible(prods, srch, cat, sort)} :
        /\ visibleProducts' = d.list
        /\ products' = d.catalog

(* variant of the settle handlers without the `mounted` tests *)
FetchSettleWithNoFlag(resp) ==
    /\ fetchPc' = "settled"
    /\ LET r == fetchProductsFromApi(resp)
       IN /\ fetched' = r
          /\ loading' = FALSE
          /\ IF r.rejected
             THEN /\ error' = "Failed to load products."
                  /\ UNCHANGED <<products, visibleProducts>>
             ELSE /\ error' = error
                  /\ Render(r.data, search, category, sortBy)
    /\ UNCHANGED <<cartVars, shellVars, mounted, search, category, sortBy>>

(* the promise of fetchProductsFromApi settles: then / catch / finally *)
FetchSettleWith(resp) ==
    /\ fetchPc' = "settled"
    /\ LET r == fetchProductsFromApi(resp)
       IN /\ fetched' = r
          /\ IF ~mounted
             THEN UNCHANGED <<products, visibleProducts, loading, error>>
             ELSE /\ loading' = FALSE
                  /\ IF r.rejected
                     THEN /\ error' = "Failed to load products."
                          /\ UNCHANGED <<products, visibleProducts>>
                     ELSE /\ error' = error
                          /\ Render(r.data, search, category, sortBy)
    /\ UNCHANGED <<cartVars, shellVars, mounted, search, category, sortBy>>

FetchSettle ==
    /\ fetchPc = "pending"
    /\ \E resp \in Responses : FetchSettleWith(resp)

setSearch(q) ==
    /\ mounted
    /\ search' = q
    /\ Render(products, q, category, sortBy)
    /\ UNCHANGED <<cartVars, shellVars, loading, error, mounted, fetchPc, fetched,
                   category, sortBy>>

setCategory(k) ==
    /\ mounted
    /\ k \in categories(products)
    /\ category' = k
    /\ Render(products, search, k, sortBy)
    /\ UNCHANGED <<cartVars, shellVars, loading, error, mounted, fetchPc, fetched,
                   search, sortBy>>

setSortBy(sort) ==
    /\ mounted
    /\ sortBy' = sort
    /\ Render(products, search, category, sort)
    /\ UNCHANGED <<cartVars, shellVars, loading, error, mounted, fetchPc, fetched,
                   search, category>>

(* cleanup of the fetch effect when the page is torn down *)
CatalogTeardown ==
    /\ mounted
    /\ mounted' = FALSE
    /\ UNCHANGED <<cartVars, shellVars, products, loading, error, fetchPc, fetched,
                   search, category, sortBy, visibleProducts>>

NextCatalog ==
    \/ FetchSettle
    \/ \E q \in SearchStrings : setSearch(q)
    \/ \E k \in categories(products) : setCategory(k)
    \/ \E sort \in SortKeys : setSortBy(sort)
    \/ CatalogTeardown

SpecCatalog == InitCatalog /\ [][NextCatalog]_vars

----------------------------------------------------------------------------
(* The cart as it is driven through the page's controls: the Add buttons   *)
(* of the cards and of the quick view add one unit, the drawer's - and +   *)
(* buttons edit the quantity of a listed item.                             *)

Max(a, b) == IF a >= b THEN a ELSE b

(* a slot written by someone else that holds an item of quantity 0 *)
TamperedSlot ==
    JSONstringify(<<[product |-> "p1", quantity |-> 0],
                    [product |-> "p2", quantity |-> 1]>>)

InitDrawer ==
    /\ phase = "closed"
    /\ cart = <<>>
    /\ pending = NoPending
    /\ storage \in {Absent, TamperedSlot}
    /\ quota = 0
    /\ writeOk = TRUE
    /\ renderError = FALSE
    /\ saved = [ok |-> FALSE, cart |-> <<>>]
    /\ atStart = [ok |-> FALSE, cart |-> <<>>]
    /\ lastOp = Op("none", "-", 0, <<>>)
    /\ subtotal = 0
    /\ CatalogIdle
    /\ ShellIdle

(* onAdd={(prod) => handleAddToCart(prod, 1)} and the quick view's         *)
(* handleAddToCart(quickProduct), whose qty defaults to 1                  *)
AddButton(id) == handleAddToCart(id, 1)

(* variant of the decrease button that requests quantity - 1 as it is *)
DrawerDecreaseUnclamped(i) ==
    /\ i \in 1..Len(cart)
    /\ handleUpdateQty(cart[i].product, cart[i].quantity - 1)

(* the - button of the i-th listed item *)
DrawerDecrease(i) ==
    /\ i \in 1..Len(cart)
    /\ handleUpdateQty(cart[i].product, Max(1, cart[i].quantity - 1))

(* the + button of the i-th listed item *)
DrawerIncrease(i) ==
    /\ i \in 1..Len(cart)
    /\ cart[i].quantity < MaxQty
    /\ handleUpdateQty(cart[i].product, cart[i].quantity + 1)

(* the Remove link of the i-th listed item *)
DrawerRemove(i) ==
    /\ i \in 1..Len(cart)
    /\ handleRemove(cart[i].product)

NextDrawer ==
    \/ Mount
    \/ Hydrate
    \/ \E id \in ProductIds : AddButton(id)
    \/ \E i \in 1..Cardinality(ProductIds) : DrawerDecrease(i)
    \/ \E i \in 1..Cardinality(ProductIds) : DrawerIncrease(i)
    \/ \E i \in 1..Cardinality(ProductIds) : DrawerRemove(i)
    \/ handleClearCart
    \/ Teardown

SpecDrawer == InitDrawer /\ [][NextDrawer]_vars

----------------------------------------------------------------------------
(* Header: the two menus, the document listeners and the search form.      *)
(* A press of a mouse button is a mousedown, which the document listener   *)
(* sees first, followed by the click on the same element.                  *)

(* encodeURIComponent on one character: unreserved characters stay, the    *)
(* others become the %XX of their UTF-8 byte                               *)
EncodeChar(c) ==
    CASE c = " " -> <<"%", "2", "0">>
      [] c = "&" -> <<"%", "2", "6">>
      [] c = "%" -> <<"%", "2", "5">>
      [] c = "+" -> <<"%", "2", "B">>
      [] OTHER -> <<c>>

RECURSIVE encodeURIComponent(_)
encodeURIComponent(str) ==
    IF str = <<>> THEN <<>>
    ELSE EncodeChar(Head(str)) \o encodeURIComponent(Tail(str))

(* the template literal `/search?q=${...}` *)
SearchUrl(q) == <<"/search?q=">> \o encodeURIComponent(q)

(* texts typed into the search box *)
SearchValues ==
    { <<>>, <<" ">>, <<"a">>, <<" ", "a", " ", "&", "b", " ">>,
      <<"5", "0", "%">> }

Routes == {"/", "/shop", "/search"}

(* where a mousedown can land: the two buttons, inside the open profile    *)
(* menu, inside the open mobile panel, anywhere else                       *)
Targets == {"mobileToggle", "profileButton", "profileMenu", "mobilePanel",
            "elsewhere"}

(* profileRef holds the div around the profile button and its menu *)
InProfileRef(target) == target \in {"profileButton", "profileMenu"}

(* mobileMenuRef holds the panel, which is rendered only while open; the   *)
(* toggle button is not inside it                                          *)
InMobileMenuRef(target) == target = "mobilePanel"

InitHeader ==
    /\ onSearch \in BOOLEAN
    /\ mobileMenuOpen = FALSE
    /\ profileMenuOpen = FALSE
    /\ searchValue = <<>>
    /\ pathname = "/"
    /\ pressed = NoPressed
    /\ submitted = NoSubmit
    /\ activated = NoPress
    /\ email = <<>>
    /\ status = "idle"
    /\ message = "null"
    /\ onSubscribe = FALSE
    /\ subscribePc = "idle"
    /\ calls = <<>>
    /\ posts = <<>>
    /\ attempt = NoAttempt
    /\ CartIdle
    /\ CatalogIdle

HeaderFrame == UNCHANGED <<cartVars, catalogVars, footerVars, onSearch>>

(* the mousedown listener of the document *)
handleClickOutside(target) ==
    /\ profileMenuOpen' =
          IF ~InProfileRef(target) THEN FALSE ELSE profileMenuOpen
    /\ mobileMenuOpen' =
          IF mobileMenuOpen /\ ~InMobileMenuRef(target)
          THEN FALSE ELSE mobileMenuOpen

MouseDown(target) ==
    /\ pressed = NoPressed
    /\ target = "profileMenu" => profileMenuOpen
    /\ target = "mobilePanel" => mobileMenuOpen
    /\ handleClickOutside(target)
    /\ pressed' =
          IF target = "mobileToggle"
          THEN [target |-> target, before |-> mobileMenuOpen]
          ELSE IF target = "profileButton"
          THEN [target |-> target, before |-> profileMenuOpen]
          ELSE NoPressed
    /\ activated' = NoPress
    /\ UNCHANGED <<searchValue, pathname, submitted>>
    /\ HeaderFrame

(* the click that follows the mousedown on a menu button: the onClick      *)
(* updaters (s) => !s                                                      *)
Click ==
    /\ pressed # NoPressed
    /\ IF pressed.target = "mobileToggle"
       THEN /\ mobileMenuOpen' = ~mobileMenuOpen
            /\ UNCHANGED profileMenuOpen
       ELSE /\ profileMenuOpen' = ~profileMenuOpen
            /\ UNCHANGED mobileMenuOpen
    /\ activated' = [button |-> pressed.target, before |-> pressed.before]
    /\ pressed' = NoPressed
    /\ UNCHANGED <<searchValue, pathname, submitted>>
    /\ HeaderFrame

(* keydown of Escape *)
handleEsc ==
    /\ pressed = NoPressed
    /\ profileMenuOpen' = FALSE
    /\ mobileMenuOpen' = FALSE
    /\ activated' = [button |-> "escape", before |-> FALSE]
    /\ UNCHANGED <<searchValue, pathname, pressed, submitted>>
    /\ HeaderFrame

(* a Link or router.push to another route: the effect on pathname runs *)
RouteChange(path) ==
    /\ pressed = NoPressed
    /\ path # pathname
    /\ pathname' = path
    /\ profileMenuOpen' = FALSE
    /\ mobileMenuOpen' = FALSE
    /\ activated' = [button |-> "route", before |-> FALSE]
    /\ UNCHANGED <<searchValue, pressed, submitted>>
    /\ HeaderFrame

setSearchValue(v) ==
    /\ pressed = NoPressed
    /\ searchValue' = v
    /\ activated' = NoPress
    /\ UNCHANGED <<mobileMenuOpen, profileMenuOpen, pathname, pressed, submitted>>
    /\ HeaderFrame

(* variant of handleSearchSubmit that passes on the text as typed *)
handleSearchSubmitUntrimmed ==
    /\ pressed = NoPressed
    /\ activated' = NoPress
    /\ LET q == searchValue
       IN IF trim(q) = <<>>
          THEN /\ submitted' = [done |-> TRUE, value |-> searchValue,
                                navigated |-> FALSE, url |-> <<>>,
                                handled |-> FALSE, arg |-> <<>>]
               /\ UNCHANGED <<mobileMenuOpen, profileMenuOpen, pathname>>
          ELSE IF onSearch
          THEN /\ submitted' = [done |-> TRUE, value |-> searchValue,
                                navigated |-> FALSE, url |-> <<>>,
                                handled |-> TRUE, arg |-> q]
               /\ mobileMenuOpen' = FALSE
               /\ UNCHANGED <<profileMenuOpen, pathname>>
          ELSE /\ submitted' = [done |-> TRUE, value |-> searchValue,
                                navigated |-> TRUE, url |-> SearchUrl(q),
                                handled |-> FALSE, arg |-> <<>>]
               /\ pathname' = "/search"
               /\ mobileMenuOpen' = FALSE
               /\ profileMenuOpen' =
                     IF pathname # "/search" THEN FALSE ELSE profileMenuOpen
    /\ UNCHANGED <<searchValue, pressed>>
    /\ HeaderFrame

(* submission of either search form *)
handleSearchSubmit ==
    /\ pressed = NoPressed
    /\ activated' = NoPress
    /\ LET q == trim(searchValue)
       IN IF q = <<>>
          THEN /\ submitted' = [done |-> TRUE, value |-> searchValue,
                                navigated |-> FALSE, url |-> <<>>,
                                handled |-> FALSE, arg |-> <<>>]
               /\ UNCHANGED <<mobileMenuOpen, profileMenuOpen, pathname>>
          ELSE IF onSearch
          THEN /\ submitted' = [done |-> TRUE, value |-> searchValue,
                                navigated |-> FALSE, url |-> <<>>,
                                handled |-> TRUE, arg |-> q]
               /\ mobileMenuOpen' = FALSE
               /\ UNCHANGED <<profileMenuOpen, pathname>>
          ELSE /\ submitted' = [done |-> TRUE, value |-> searchValue,
                                navigated |-> TRUE, url |-> SearchUrl(q),
                                handled |-> FALSE, arg |-> <<>>]
               /\ pathname' = "/search"
               /\ mobileMenuOpen' = FALSE
               /\ profileMenuOpen' =
                     IF pathname # "/search" THEN FALSE ELSE profileMenuOpen
    /\ UNCHANGED <<searchValue, pressed>>
    /\ HeaderFrame

NextHeader ==
    \/ \E target \in Targets : MouseDown(target)
    \/ Click
    \/ handleEsc
    \/ \E path \in Routes : RouteChange(path)
    \/ \E v \in SearchValues : setSearchValue(v)
    \/ handleSearchSubmit

SpecHeader == InitHeader /\ [][NextHeader]_vars

----------------------------------------------------------------------------
(* Footer: the newsletter form.  handleSubmit runs up to its first await   *)
(* in the submit event; the rest runs when the awaited callback or         *)
(* request settles.                                                        *)

MaxSubmits == 2

(* EMAIL_REGEX = /^[^\s@]+@[^\s@]+\.[^\s@]+$/ : one @ that is not first,   *)
(* no whitespace, and after the @ a dot with something on both sides       *)
EmailValid(e) ==
    \E i \in 2..Len(e), j \in 1..Len(e) :
        /\ e[i] = "@"
        /\ \A k \in (1..Len(e)) \ {i} : e[k] \notin {" ", "@"}
        /\ e[j] = "."
        /\ j > i + 1
        /\ j < Len(e)

(* texts typed into the email box *)
Emails ==
    { <<>>, <<"a", "@", "b">>, <<"a", "@", "b", ".", "c">>,
      <<"x", "@", "y", ".", "z">>, <<"a", " ", "@", "b", ".", "c">> }

ValidationMessage == "Please enter a valid email address."
SuccessMessage == "Subscribed successfully. Check your inbox!"
GenericServerMessage ==
    "Something went wrong while subscribing. Please try again later."
NetworkMessage == "Network error. Please try again later."

(* the `message` of the JSON body of a failed response, in the model *)
ServerMessage == "This address is already subscribed."

(* how an awaited onSubscribe(email) ends: it resolves, or rejects because *)
(* the parent's server call reported a failure or could not be made        *)
CallbackOutcomes == {"resolved", "rejectedServer", "rejectedNetwork"}

(* how the POST ends: 2xx; a failure status with a message in its JSON     *)
(* body, with a JSON body without message, with a body that is not JSON;   *)
(* fetch rejects                                                           *)
RequestOutcomes ==
    {"ok", "notOkMessage", "notOkNoMessage", "notOkBadJson", "networkError"}

InitFooter ==
    /\ onSubscribe \in BOOLEAN
    /\ email = <<>>
    /\ status = "idle"
    /\ message = "null"
    /\ subscribePc = "idle"
    /\ calls = <<>>
    /\ posts = <<>>
    /\ attempt = NoAttempt
    /\ mobileMenuOpen = FALSE
    /\ profileMenuOpen = FALSE
    /\ searchValue = <<>>
    /\ onSearch = FALSE
    /\ pathname = "/"
    /\ pressed = NoPressed
    /\ submitted = NoSubmit
    /\ activated = NoPress
    /\ CartIdle
    /\ CatalogIdle

FooterFrame == UNCHANGED <<cartVars, catalogVars, headerVars, onSubscribe>>

setEmail(e) ==
    /\ email' = e
    /\ UNCHANGED <<status, message, subscribePc, calls, posts, attempt>>
    /\ FooterFrame

(* the submit event: validation, then the call of onSubscribe or the POST. *)
(* The submit button is disabled while status is loading.                  *)
handleSubmit ==
    /\ status # "loading"
    /\ attempt.count < MaxSubmits
    /\ IF ~EmailValid(email)
       THEN /\ status' = "error"
            /\ message' = ValidationMessage
            /\ attempt' = [email |-> email, valid |-> FALSE,
                           kind |-> "validation", via |-> "client",
                           count |-> attempt.count]
            /\ UNCHANGED <<subscribePc, calls, posts>>
       ELSE /\ status' = "loading"
            /\ message' = "null"
            /\ attempt' = [email |-> email, valid |-> TRUE, kind |-> "none",
                           via |-> "none", count |-> attempt.count + 1]
            /\ IF onSubscribe
               THEN /\ calls' = Append(calls, email)
                    /\ subscribePc' = "callback"
                    /\ UNCHANGED posts
               ELSE /\ posts' = Append(posts, email)
                    /\ subscribePc' = "request"
                    /\ UNCHANGED calls
    /\ UNCHANGED email
    /\ FooterFrame

(* variant in which a rejected callback falls through to the default POST *)
CallbackSettleFallsThrough(outcome) ==
    /\ subscribePc = "callback"
    /\ IF outcome = "resolved"
       THEN /\ status' = "success"
            /\ message' = SuccessMessage
            /\ email' = <<>>
            /\ subscribePc' = "idle"
            /\ UNCHANGED <<attempt, posts>>
       ELSE /\ posts' = Append(posts, attempt.email)
            /\ subscribePc' = "request"
            /\ UNCHANGED <<status, message, email, attempt>>
    /\ UNCHANGED calls
    /\ FooterFrame

(* `await onSubscribe(email)` ends: the lines after it, or the catch *)
CallbackSettle(outcome) ==
    /\ subscribePc = "callback"
    /\ subscribePc' = "idle"
    /\ IF outcome = "resolved"
       THEN /\ status' = "success"
            /\ message' = SuccessMessage
            /\ email' = <<>>
            /\ UNCHANGED attempt
       ELSE /\ status' = "error"
            /\ message' = NetworkMessage
            /\ attempt' = [attempt EXCEPT
                              !.kind = IF outcome = "rejectedServer"
                                       THEN "server" ELSE "network",
                              !.via = "callback"]
            /\ UNCHANGED email
    /\ UNCHANGED <<calls, posts>>
    /\ FooterFrame

(* variant of the request's end that empties the email box on errors too *)
RequestSettleClearAlways(outcome) ==
    /\ subscribePc = "request"
    /\ subscribePc' = "idle"
    /\ email' = <<>>
    /\ IF outcome = "ok"
       THEN /\ status' = "success"
            /\ message' = SuccessMessage
            /\ UNCHANGED attempt
       ELSE /\ status' = "error"
            /\ message' = NetworkMessage
            /\ attempt' = [attempt EXCEPT !.kind = "network", !.via = "request"]
    /\ UNCHANGED <<calls, posts>>
    /\ FooterFrame

(* `await fetch(...)` ends: the !res.ok branch, the success lines, or the  *)
(* catch                                                                   *)
RequestSettle(outcome) ==
    /\ subscribePc = "request"
    /\ subscribePc' = "idle"
    /\ IF outcome = "ok"
       THEN /\ status' = "success"
            /\ message' = SuccessMessage
            /\ email' = <<>>
            /\ UNCHANGED attempt
       ELSE IF outcome = "networkError"
       THEN /\ status' = "error"
            /\ message' = NetworkMessage
            /\ attempt' = [attempt EXCEPT !.kind = "network", !.via = "request"]
            /\ UNCHANGED email
       ELSE /\ status' = "error"
            /\ message' = IF outcome = "notOkMessage"
                          THEN ServerMessage ELSE GenericServerMessage
            /\ attempt' = [attempt EXCEPT !.kind = "server", !.via = "request"]
            /\ UNCHANGED email
    /\ UNCHANGED <<calls, posts>>
    /\ FooterFrame

NextFooter ==
    \/ \E e \in Emails : setEmail(e)
    \/ handleSubmit
    \/ \E outcome \in CallbackOutcomes : CallbackSettle(outcome)
    \/ \E outcome \in RequestOutcomes : RequestSettle(outcome)

SpecFooter == InitFooter /\ [][NextFooter]_vars

----------------------------------------------------------------------------
(* Properties of the derived list and of the fetch *)

(* the list after the two filters, before the sort *)
FilteredList == Filtered(Slice(products), search, category).items

Count(list, x) == Cardinality({i \in 1..Len(list) : list[i] = x})

IsPermutation(a, b) ==
    /\ Len(a) = Len(b)
    /\ \A i \in 1..Len(a) : Count(a, a[i]) = Count(b, a[i])

ContainsText(p, q) ==
    \/ includes(toLowerCase(p.title), toLowerCase(q))
    \/ includes(toLowerCase(p.description), toLowerCase(q))

(* the key the current sort orders by: larger comes later *)
SortKeyOf(p) ==
    CASE sortBy = "price-asc" -> p.price
      [] sortBy = "price-desc" -> 0 - p.price
      [] sortBy = "rating" -> 0 - (IF p.rating.present THEN p.rating.rate ELSE 0)
      [] OTHER -> 0

IndexPermutations(n) ==
    {f \in [1..n -> 1..n] : \A i, j \in 1..n : f[i] = f[j] => i = j}

(* C14: with an empty search, category All and sort key featured the       *)
(* derived list is the catalog: same products in the same order.           *)
C14_NoFilterIsIdentity ==
    (search = <<>> /\ category = "All" /\ sortBy = "featured") =>
        visibleProducts = products

(* a fetched catalog of three products that is not in price order is shown *)
C14_Witness ==
    /\ fetchPc = "settled"
    /\ search = <<>> /\ category = "All" /\ sortBy = "featured"
    /\ Len(visibleProducts) = 3
    /\ visibleProducts[1].price > visibleProducts[2].price

(* C15 as stated: for every search string q, whitespace-only ones          *)
(* included, every product of the derived list has q as a case-insensitive *)
(* substring of its title or of its description.                           *)
C15_ResultsContainSearch ==
    \A i \in 1..Len(visibleProducts) : ContainsText(visibleProducts[i], search)

(* C15 amended: that holds for every search string q that is not           *)
(* whitespace-only (q is matched as typed, with its leading and trailing   *)
(* whitespace); a whitespace-only q filters nothing.                       *)
C15_ResultsContainNonBlankSearch ==
    /\ trim(search) # <<>> =>
          \A i \in 1..Len(visibleProducts) :
              ContainsText(visibleProducts[i], search)
    /\ (trim(search) = <<>> /\ category = "All") =>
          IsPermutation(visibleProducts, products)

(* a search with leading whitespace keeps some products and drops others *)
C15_Witness ==
    /\ search = <<" ", "m">>
    /\ category = "All"
    /\ visibleProducts # <<>>
    /\ Len(visibleProducts) < Len(products)

(* C16: for a category selector k other than All, every product of the     *)
(* derived list has category k, and every catalog product of category k    *)
(* that passes the search filter is in the list.                           *)
C16_CategoryFilterExact ==
    category # "All" =>
        /\ \A i \in 1..Len(visibleProducts) :
              visibleProducts[i].category = category
        /\ \A i \in 1..Len(products) :
              (/\ products[i].category = category
               /\ (trim(search) = <<>> \/ ContainsText(products[i], search)))
                  => Count(visibleProducts, products[i]) = Count(products, products[i])

(* category Home selected on a catalog that also has an uncategorized      *)
(* product, with a search that drops one of the Home products              *)
C16_Witness ==
    /\ category = "Home"
    /\ trim(search) # <<>>
    /\ visibleProducts # <<>>
    /\ \E i \in 1..Len(products) : products[i].category = "Uncategorized"
    /\ \E i \in 1..Len(products) :
          /\ products[i].category = "Home"
          /\ Count(visibleProducts, products[i]) = 0

(* C17: under price-ascending the prices of the derived list never         *)
(* decrease, under price-descending they never increase, under             *)
(* rating-descending the rates (a missing rating counting 0) never         *)
(* increase; the list is a permutation of the filtered list.               *)
C17_SortedAsSelected ==
    /\ IsPermutation(visibleProducts, FilteredList)
    /\ \A i, j \in 1..Len(visibleProducts) :
          i < j =>
              /\ sortBy = "price-asc" =>
                    visibleProducts[i].price <= visibleProducts[j].price
              /\ sortBy = "price-desc" =>
                    visibleProducts[i].price >= visibleProducts[j].price
              /\ sortBy = "rating" =>
                    (IF visibleProducts[i].rating.present
                     THEN visibleProducts[i].rating.rate ELSE 0)
                    >= (IF visibleProducts[j].rating.present
                        THEN visibleProducts[j].rating.rate ELSE 0)

(* price-descending has reordered a list of three with different prices *)
C17_Witness ==
    /\ sortBy = "price-desc"
    /\ Len(visibleProducts) = 3
    /\ visibleProducts # FilteredList
    /\ visibleProducts[1].price > visibleProducts[3].price

(* C18: the sort is stable: the derived list is the filtered list          *)
(* rearranged so that products with equal sort key keep their relative     *)
(* order (under featured, all of them).                                    *)
C18_SortIsStable ==
    \E f \in IndexPermutations(Len(FilteredList)) :
        /\ Len(visibleProducts) = Len(FilteredList)
        /\ \A i \in 1..Len(FilteredList) : visibleProducts[i] = FilteredList[f[i]]
        /\ \A i, j \in 1..Len(FilteredList) :
              (i < j /\ SortKeyOf(visibleProducts[i]) = SortKeyOf(visibleProducts[j]))
                  => f[i] < f[j]

(* a rating sort has moved products, and two different products of equal   *)
(* rate (one of them without rating) are in the list                       *)
C18_Witness ==
    /\ sortBy = "rating"
    /\ visibleProducts # FilteredList
    /\ \E i, j \in 1..Len(visibleProducts) :
          /\ i < j
          /\ visibleProducts[i] # visibleProducts[j]
          /\ ~visibleProducts[i].rating.present
          /\ visibleProducts[j].rating.present
          /\ SortKeyOf(visibleProducts[i]) = SortKeyOf(visibleProducts[j])

(* C19: deriving the list never changes the catalog: after the fetch the   *)
(* products state stays what was fetched, whatever is searched, selected   *)
(* or sorted, so featured without filters shows the fetch order.           *)
C19_CatalogNeverMutated ==
    /\ (fetched.settled /\ ~loading) => products = fetched.data
    /\ loading => products = <<>>
    /\ (~loading /\ search = <<>> /\ category = "All" /\ sortBy = "featured")
          => visibleProducts = fetched.data

(* an unfiltered list is shown in an order other than the catalog's *)
C19_Witness ==
    /\ ~loading
    /\ trim(search) = <<>>
    /\ category = "All"
    /\ sortBy = "price-asc"
    /\ visibleProducts # products
    /\ Len(products) = 3

(* C20: fetchProductsFromApi never rejects; on a network error, a          *)
(* non-success status, a malformed body or a body that is not an array it  *)
(* resolves to the fallback catalog of exactly 4 products.                 *)
C20_FetchFallsBack ==
    /\ ~fetched.rejected
    /\ (fetched.settled
        /\ fetched.response \in {"networkError", "notOk", "malformed", "notArray"})
          => /\ fetched.data = SAMPLE_PRODUCTS
             /\ Len(fetched.data) = 4
             /\ \A i, j \in 1..4 :
                   fetched.data[i].id = fetched.data[j].id => i = j

(* a body that is not an array has been received by a mounted page *)
C20_Witness ==
    /\ fetched.settled
    /\ fetched.response = "notArray"
    /\ mounted
    /\ Len(products) = 4

(* data is what data.map gives for some array body without null: one     *)
(* coerced product per element                                             *)
IsCoerced(data) ==
    \A i \in 1..Len(data) :
        \E p \in RawPool : p.kind # "null" /\ data[i] = Coerce(p, RandomId(i))

(* C21: record coercion is total on list responses: for every JSON array   *)
(* body, whatever its elements, the fetch returns one coerced product per  *)
(* element; the fallback catalog is used only when the response is not a   *)
(* list.                                                                   *)
C21_CoercionTotalOnArrays ==
    (fetched.settled /\ fetched.response = "array") =>
        /\ Len(fetched.data) = fetched.elements
        /\ IsCoerced(fetched.data)

(* C22: when the page is torn down while the fetch is pending, the         *)
(* completion of the fetch updates none of products, error and loading;    *)
(* on a page still mounted loading is true until the fetch settles and     *)
(* false from then on.                                                     *)
C22_LateResultSuppressed ==
    [][ /\ (fetchPc = "pending" /\ fetchPc' = "settled" /\ ~mounted)
            => UNCHANGED <<products, error, loading, visibleProducts>>
        /\ (fetchPc = "pending" /\ fetchPc' = "settled" /\ mounted)
            => (loading /\ ~loading')
        /\ fetchPc' = "pending" => loading'
        /\ fetchPc = "settled" => loading' = loading ]_vars

(* the fetch completed with a catalog after the page had been torn down *)
C22_Witness ==
    /\ fetchPc = "settled"
    /\ ~mounted
    /\ fetched.data # <<>>
    /\ loading
    /\ products = <<>>

(* C26: a catalog fetch failure never reaches the error state of the page: *)
(* the error message is null in every state, and once the fetch has        *)
(* settled on a mounted page the product list is the coerced response or   *)
(* the fallback catalog.                                                   *)
C26_FetchFailureNeverSurfaces ==
    /\ error = "null"
    /\ (fetchPc = "settled" /\ ~loading) =>
          \/ products = SAMPLE_PRODUCTS
          \/ /\ fetched.response = "array"
             /\ Len(products) = fetched.elements
             /\ IsCoerced(products)

(* a network error has settled on a mounted page, which shows the fallback *)
C26_Witness ==
    /\ fetchPc = "settled"
    /\ mounted
    /\ ~loading
    /\ fetched.response = "networkError"
    /\ products = SAMPLE_PRODUCTS
    /\ error = "null"

Positive(items) == \A i \in 1..Len(items) : items[i].quantity > 0

(* C27: through the drawer's controls a quantity edit never removes an     *)
(* item: starting from a cart with positive quantities the - and + buttons *)
(* request a quantity of at least 1 and keep every item in its place, the  *)
(* - button at quantity 1 leaves the cart as it is, and only Remove and    *)
(* Clear shrink the cart.                                                  *)
C27_DrawerEditsNeverRemove ==
    Positive(lastOp.prev) =>
        /\ lastOp.op = "update" =>
              /\ lastOp.qty >= 1
              /\ Len(cart) = Len(lastOp.prev)
              /\ \A i \in 1..Len(cart) : cart[i].product = lastOp.prev[i].product
        /\ (lastOp.op = "update" /\ lastOp.qty = 1
            /\ QuantityOf(lastOp.prev, lastOp.id) = 1) => cart = lastOp.prev
        /\ (lastOp.op \in {"add", "update", "remove", "clear"}
            /\ Len(cart) < Len(lastOp.prev)) => lastOp.op \in {"remove", "clear"}

(* the - button was pressed on an item of quantity 1 in a cart of two *)
C27_Witness ==
    /\ lastOp.op = "update"
    /\ lastOp.qty = 1
    /\ Positive(lastOp.prev)
    /\ QuantityOf(lastOp.prev, lastOp.id) = 1
    /\ Len(lastOp.prev) = 2
    /\ cart = lastOp.prev

(* C23 as stated: without an injected handler every search submission      *)
(* navigates to /search?q=<URI-encoded trimmed query>; with a handler the  *)
(* handler receives the trimmed query and nothing is navigated.            *)
C23_SubmitNavigatesOrHands ==
    submitted.done =>
        IF onSearch
        THEN /\ submitted.handled
             /\ submitted.arg = trim(submitted.value)
             /\ ~submitted.navigated
        ELSE /\ submitted.navigated
             /\ submitted.url = <<"/search?q=">>
                                   \o encodeURIComponent(trim(submitted.value))
             /\ ~submitted.handled

(* C23 amended: that holds for every submission whose trimmed query is not *)
(* empty; a submission of an empty or whitespace-only query neither        *)
(* navigates nor calls the handler.                                        *)
C23_NonBlankSubmitNavigatesOrHands ==
    submitted.done =>
        IF trim(submitted.value) = <<>>
        THEN ~submitted.navigated /\ ~submitted.handled
        ELSE IF onSearch
        THEN /\ submitted.handled
             /\ submitted.arg = trim(submitted.value)
             /\ ~submitted.navigated
        ELSE /\ submitted.navigated
             /\ submitted.url = <<"/search?q=">>
                                   \o encodeURIComponent(trim(submitted.value))
             /\ ~submitted.handled

(* a query with surrounding blanks and a reserved character was submitted  *)
(* without a handler and navigated                                         *)
C23_Witness ==
    /\ submitted.done
    /\ ~onSearch
    /\ submitted.value = <<" ", "a", " ", "&", "b", " ">>
    /\ submitted.navigated
    /\ submitted.url = <<"/search?q=", "a", "%", "2", "0", "%", "2", "6", "b">>
    /\ pathname = "/search"

(* C28: each press of a header menu button (mousedown, then click) flips   *)
(* that menu: the mobile toggle pressed while the mobile menu is open      *)
(* leaves it closed, likewise the profile button; Escape and a route       *)
(* change leave both menus closed.                                         *)
C28_MenuButtonsToggle ==
    /\ activated.button = "mobileToggle" => mobileMenuOpen = ~activated.before
    /\ activated.button = "profileButton" => profileMenuOpen = ~activated.before
    /\ activated.button \in {"escape", "route"} =>
          ~mobileMenuOpen /\ ~profileMenuOpen

(* C24: a failed subscription ends in status error with the message of its *)
(* kind of failure: invalid email format, server-reported failure (the     *)
(* server's message or the generic one), network failure; also when it is  *)
(* the injected callback that fails.                                       *)
C24_MessageTellsFailureKind ==
    status = "error" =>
        /\ attempt.kind \in {"validation", "server", "network"}
        /\ attempt.kind = "validation" =>
              message = ValidationMessage /\ attempt.via = "client"
        /\ attempt.kind = "server" =>
              message \in {ServerMessage, GenericServerMessage}
        /\ attempt.kind = "network" => message = NetworkMessage

(* C25: with an injected callback a submission of a valid email calls the  *)
(* callback with that email and never POSTs to /api/newsletter, whether    *)
(* the callback succeeds or fails.                                         *)
C25_CallbackReplacesPost ==
    IF onSubscribe
    THEN /\ posts = <<>>
         /\ Len(calls) = attempt.count
         /\ attempt.valid => calls[Len(calls)] = attempt.email
    ELSE calls = <<>>

(* the callback was called twice, failed for the second email, no POST *)
C25_Witness ==
    /\ onSubscribe
    /\ Len(calls) = 2
    /\ calls[1] # calls[2]
    /\ attempt.via = "callback"
    /\ status = "error"
    /\ posts = <<>>

(* C29: a submission with a valid email sets status loading with no        *)
(* message; when the callback or the request settles the status becomes    *)
(* success or error; the status never returns to idle; the email box is    *)
(* emptied on success and left alone on every error.                       *)
C29_StatusMachine ==
    [][ /\ (subscribePc = "idle" /\ attempt' # attempt) =>
              IF EmailValid(email)
              THEN status' = "loading" /\ message' = "null"
                   /\ subscribePc' # "idle"
              ELSE status' = "error" /\ subscribePc' = "idle"
        /\ (subscribePc # "idle" /\ subscribePc' = "idle") =>
              status' \in {"success", "error"}
        /\ (subscribePc' # "idle") <=> (status' = "loading")
        /\ status # "idle" => status' # "idle"
        /\ (status # "success" /\ status' = "success") => email' = <<>>
        /\ (status' = "error" /\ (status # "error" \/ attempt' # attempt))
              => email' = email ]_vars

(* a request succeeded and emptied the box that held the submitted email *)
C29_Witness ==
    /\ ~onSubscribe
    /\ status = "success"
    /\ subscribePc = "idle"
    /\ attempt.valid
    /\ posts # <<>>
    /\ email = <<>>

====
